---- MODULE Spec2Model ----
(***************************************************************************)
(* Color Predictor: the learning pipeline of utils/colorUtils.js           *)
(* (hexToRgb, preprocessData, trainModel, predictColor) and the React      *)
(* component ColorPredictor that drives it.                                 *)
(*                                                                         *)
(* Three specifications share the variables below:                         *)
(*   SpecCodec     hexToRgb applied to one input value                     *)
(*   SpecPipeline  a session of trainModel / predictColor calls on one     *)
(*                 model, with the engine's tensor heap                    *)
(*   SpecUI        the ColorPredictor component: clicks, promise           *)
(*                 settlements and renders                                 *)
(***************************************************************************)
EXTENDS Integers, Sequences, FiniteSets, TLC

VARIABLES
    \* ---- SpecCodec
    codecPc,      \* "call" before hexToRgb has run, "done" after
    hex,          \* the argument of hexToRgb (a JavaScript value)
    rgb,          \* what hexToRgb returned
    \* ---- SpecPipeline
    live,         \* the engine's heap: the tensors allocated and not disposed
    pending,      \* trainModel calls suspended at `await model.fit`
    ncalls,       \* number of pipeline calls made so far
    last,         \* what the most recent call or settlement did
    trained,      \* whether a fit has succeeded on the model
    \* ---- SpecUI
    status,       \* useState: {isLoading, isTraining, error}
    model,        \* useState: the model, "null" until initModel sets it
    colors,       \* useState: {selected, unselected, current}
    prediction,   \* useState: null or the last prediction's label
    modelStats,   \* useState: {trainedSamples, lastTrained}
    initPc,       \* position of initModel: "load" (awaiting loadModel) or "done"
    runs,         \* handleTrainModel invocations that have not settled
    nruns,        \* number of handleTrainModel invocations that reached trainModel
    view,         \* what the last render put on screen, with the memoized handlers
    uiLast        \* what the most recent Train or Predict click did

codecVars == <<codecPc, hex, rgb>>
pipeVars  == <<live, pending, ncalls, last, trained>>
uiVars    == <<status, model, colors, prediction, modelStats, initPc, runs, nruns,
               view, uiLast>>
vars      == <<codecVars, pipeVars, uiVars>>

----------------------------------------------------------------------------
(* JavaScript values.  A value is [t |-> its typeof/kind, v |-> its         *)
(* characters]: a string carries its UTF-16 code units, one per element;    *)
(* a number carries its decimal digits; null and undefined carry nothing.   *)

Str(s) == [t |-> "string", v |-> s]
Num(s) == [t |-> "number", v |-> s]
JsNull == [t |-> "null", v |-> <<>>]
JsUndefined == [t |-> "undefined", v |-> <<>>]

\* !x : the values JavaScript treats as false
Falsy(x) ==
    \/ x.t \in {"null", "undefined"}
    \/ x.t = "string" /\ x.v = <<>>
    \/ x.t = "number" /\ x.v = <<"0">>

\* the result `null` of hexToRgb
NULL == <<>>

\* n / 255 : a channel value, kept as the exact fraction
Div255(n) == [num |-> n, den |-> 255]

\* [a-f\d] under the /i flag: the value of one hex digit, -1 for any other character
HexDigit(c) ==
    CASE c = "0" -> 0 [] c = "1" -> 1 [] c = "2" -> 2 [] c = "3" -> 3
      [] c = "4" -> 4 [] c = "5" -> 5 [] c = "6" -> 6 [] c = "7" -> 7
      [] c = "8" -> 8 [] c = "9" -> 9
      [] c \in {"a", "A"} -> 10 [] c \in {"b", "B"} -> 11
      [] c \in {"c", "C"} -> 12 [] c \in {"d", "D"} -> 13
      [] c \in {"e", "E"} -> 14 [] c \in {"f", "F"} -> 15
      [] OTHER -> -1

\* RegexMatches gone wrong: the pattern without its /i flag
RegexMutNoFlag(s) ==
    /\ Len(s) = 6
    /\ \A i \in 1..6 : s[i] \in {"0", "1", "2", "3", "4", "5", "6", "7", "8", "9",
                                  "a", "b", "c", "d", "e", "f"}

\* /^([a-f\d]{2})([a-f\d]{2})([a-f\d]{2})$/i.exec(s) is not null
RegexMatches(s) ==
    /\ Len(s) = 6
    /\ \A i \in 1..6 : HexDigit(s[i]) >= 0

\* parseInt(s, 16) for a string of hex digits
RECURSIVE parseInt16(_)
parseInt16(s) ==
    IF s = <<>> THEN 0
    ELSE parseInt16(SubSeq(s, 1, Len(s) - 1)) * 16 + HexDigit(s[Len(s)])

\* cleaned.split('').map(char => char + char).join('')
RECURSIVE DoubleEach(_)
DoubleEach(s) ==
    IF s = <<>> THEN <<>>
    ELSE <<s[1], s[1]>> \o DoubleEach(Tail(s))

\* Expand gone wrong: no expansion of the 3-digit shorthand
ExpandMutNoShorthand(cleaned) == cleaned

\* cleaned.length === 3 ? (each character doubled) : cleaned
Expand(cleaned) ==
    IF Len(cleaned) = 3 THEN DoubleEach(cleaned) ELSE cleaned

\* hex.charAt(0) === '#' ? hex.substring(1) : hex
Cleaned(s) ==
    IF Len(s) > 0 /\ s[1] = "#" THEN Tail(s) ELSE s

hexToRgb(x) ==
    IF Falsy(x) \/ x.t # "string" THEN NULL
    ELSE LET expanded == Expand(Cleaned(x.v))
         IN  IF ~RegexMatches(expanded) THEN NULL
             ELSE << Div255(parseInt16(SubSeq(expanded, 1, 2))),
                     Div255(parseInt16(SubSeq(expanded, 3, 4))),
                     Div255(parseInt16(SubSeq(expanded, 5, 6))) >>

----------------------------------------------------------------------------
(* preprocessData, trainModel and predictColor as functions of their        *)
(* arguments and of what the engine answers.  An array is the value         *)
(* [t |-> "array", v |-> its elements]; an Error is its message, kept as    *)
(* the sequence of the parts it was built from.                             *)

Arr(items) == [t |-> "array", v |-> items]

\* Array.isArray(x)
IsArray(x) == x.t = "array"

\* list.map(hexToRgb).filter(rgb => rgb !== null)
RECURSIVE MapFilter(_)
MapFilter(items) ==
    IF items = <<>> THEN <<>>
    ELSE LET c == hexToRgb(Head(items))
         IN  (IF c # NULL THEN <<c>> ELSE <<>>) \o MapFilter(Tail(items))

\* Array(n).fill(x)
Fill(n, x) == [i \in 1..n |-> x]

\* NoValidColors gone wrong: && in place of ||
NoValidColorsMutBoth(ps, pu) == Len(ps) = 0 /\ Len(pu) = 0

\* processedSelected.length === 0 || processedUnselected.length === 0
NoValidColors(ps, pu) == Len(ps) = 0 \/ Len(pu) = 0

\* Labels gone wrong: the two fill values exchanged
LabelsMutSwapped(nSelected, nUnselected) == Fill(nSelected, 0) \o Fill(nUnselected, 1)

\* the label column: 1 for each selected vector, then 0 for each unselected one
Labels(nSelected, nUnselected) == Fill(nSelected, 1) \o Fill(nUnselected, 0)

Threw(msg) == [threw |-> TRUE, message |-> msg,
               xs |-> <<>>, ys |-> <<>>, totalSamples |-> 0]

\* preprocessData(selectedColors, unselectedColors): what it throws, or the
\* values of the two tensors it allocates and its sample count
preprocessData(selectedColors, unselectedColors) ==
    IF ~IsArray(selectedColors) \/ ~IsArray(unselectedColors)
    THEN Threw(<<"Color arrays must be provided">>)
    ELSE IF Len(selectedColors.v) = 0 \/ Len(unselectedColors.v) = 0
    THEN Threw(<<"Both selected and unselected colors must contain data">>)
    ELSE LET processedSelected   == MapFilter(selectedColors.v)
             processedUnselected == MapFilter(unselectedColors.v)
         IN  IF NoValidColors(processedSelected, processedUnselected)
             THEN Threw(<<"No valid colors found after processing">>)
             ELSE [threw |-> FALSE, message |-> <<>>,
                   xs |-> processedSelected \o processedUnselected,
                   ys |-> Labels(Len(processedSelected), Len(processedUnselected)),
                   totalSamples |-> Len(processedSelected) + Len(processedUnselected)]

\* a tensor of the engine's heap: the call that allocated it and its role there
Tensor(call, role) == [call |-> call, role |-> role]

\* TrainingFailed gone wrong: the caught error rethrown as it is
TrainingFailedMutRethrow(msg) == msg

\* catch (error) { throw new Error(`Training failed: ${error.message}`) }
TrainingFailed(msg) == <<"Training failed: ">> \o msg

\* TrainFinally gone wrong: the disposal at the end of the try block instead of in finally
TrainFinallyMutOnSuccess(heap, call, fitOk) ==
    IF fitOk THEN heap \ {Tensor(call, "xs"), Tensor(call, "ys")} ELSE heap

\* finally { if (tensors) { tensors.xs.dispose(); tensors.ys.dispose(); } }
TrainFinally(heap, call, fitOk) ==
    heap \ {Tensor(call, "xs"), Tensor(call, "ys")}

\* exact fractions, for the score arithmetic of predictColor
Frac(n, d) == [num |-> n, den |-> d]
FracSub(a, b) == Frac(a.num * b.den - b.num * a.den, a.den * b.den)
FracAbs(a) == Frac(IF a.num < 0 THEN -a.num ELSE a.num, a.den)
FracTimes(a, n) == Frac(a.num * n, a.den)
FracGt(a, b) == a.num * b.den > b.num * a.den
FracEq(a, b) == a.num * b.den = b.num * a.den
Half == Frac(1, 2)

\* InvalidColor gone wrong: the null test left out
InvalidColorMutUnchecked(c) == FALSE

\* if (!rgb) throw new Error('Invalid color format')
InvalidColor(c) == c = NULL

\* Likely gone wrong: >= in place of >
LikelyMutGeq(score) == ~FracGt(Half, score)

\* score > 0.5
Likely(score) == FracGt(score, Half)

\* predictColor(model, color), the engine answering `engine`:
\* engine.throws, model.predict throws; else engine.score is data[0].
\* allocated / disposed: the tensors of this call, by role.
predictColor(color, engine) ==
    LET c == hexToRgb(color)
    IN  IF InvalidColor(c)
        THEN [threw |-> TRUE, message |-> <<"Invalid color format">>,
              allocated |-> {}, disposed |-> {}, predictCalls |-> 0,
              input |-> NULL, result |-> "none"]
        ELSE IF engine.throws
        THEN [threw |-> TRUE, message |-> <<"engine: predict failed">>,
              allocated |-> {"input"}, disposed |-> {"input"}, predictCalls |-> 1,
              input |-> c, result |-> "none"]
        ELSE [threw |-> FALSE, message |-> <<>>,
              allocated |-> {"input", "output"}, disposed |-> {"input"},
              predictCalls |-> 1, input |-> c,
              result |-> [score |-> engine.score,
                          confidence |-> FracTimes(FracAbs(FracSub(engine.score, Half)), 2),
                          likely |-> Likely(engine.score),
                          prediction |-> IF Likely(engine.score) THEN "like"
                                         ELSE "dislike"]]

----------------------------------------------------------------------------
(* The ColorPredictor component: its render, its memoized handlers and the  *)
(* state each part of the model starts in.                                  *)

\* the pipeline before any call
PipeIdle ==
    /\ live = {} /\ pending = {} /\ ncalls = 0 /\ trained = FALSE
    /\ last = [op |-> "none"]

\* the value of <input type="color">: "#rrggbb", lower case
Black == Str(<<"#", "0", "0", "0", "0", "0", "0">>)

\* useMemo stats: totalSamples and canTrain
Stats(cols) ==
    [totalSamples |-> Len(cols.selected) + Len(cols.unselected),
     canTrain |-> Len(cols.selected) >= 2 /\ Len(cols.unselected) >= 2]

\* handleTrainModel as created by a render: the values its body reads
TrainClosure(st, mdl, cols) ==
    [isTraining |-> st.isTraining, model |-> mdl,
     selected |-> cols.selected, unselected |-> cols.unselected,
     canTrain |-> Stats(cols).canTrain, totalSamples |-> Stats(cols).totalSamples]

\* the dependency list of useCallback(handleTrainModel)
TrainDeps(c) == <<c.model, c.selected, c.unselected, c.canTrain, c.totalSamples>>

\* handlePredict as created by a render (its dependency list is all it reads)
PredictClosure(mdl, cols) == [model |-> mdl, current |-> cols.current]

\* TrainDisabled gone wrong: the button disabled on !stats.canTrain alone
TrainDisabledMutNoStatus(st, cols) == ~Stats(cols).canTrain

\* disabled={!stats.canTrain || status.isTraining}
TrainDisabled(st, cols) == ~Stats(cols).canTrain \/ st.isTraining

\* PredictDisabled gone wrong: the button never disabled
PredictDisabledMutNever(mstats) == FALSE

\* disabled={!modelStats.lastTrained}
PredictDisabled(mstats) == ~mstats.lastTrained

\* one render of the component: what is on screen and the memoized handlers;
\* useCallback keeps the previous handler unless a dependency changed
Render(st, mdl, cols, mstats, prev) ==
    LET fresh == TrainClosure(st, mdl, cols)
    IN  [isLoading |-> st.isLoading,
         trainDisabled |-> TrainDisabled(st, cols),
         predictDisabled |-> PredictDisabled(mstats),
         handleTrainModel |-> IF TrainDeps(fresh) = TrainDeps(prev.handleTrainModel)
                              THEN prev.handleTrainModel ELSE fresh,
         handlePredict |-> PredictClosure(mdl, cols)]

\* the useState initial values
InitialStatus == [isLoading |-> TRUE, isTraining |-> FALSE, error |-> "null"]
InitialColors == [selected |-> <<>>, unselected |-> <<>>, current |-> Black]
InitialModelStats == [trainedSamples |-> 0, lastTrained |-> FALSE]

\* the first render
FirstRender ==
    [isLoading |-> TRUE,
     trainDisabled |-> TrainDisabled(InitialStatus, InitialColors),
     predictDisabled |-> PredictDisabled(InitialModelStats),
     handleTrainModel |-> TrainClosure(InitialStatus, "null", InitialColors),
     handlePredict |-> PredictClosure("null", InitialColors)]

\* the component after its first render, initModel at `pc`
UiMounted(pc) ==
    /\ status = InitialStatus
    /\ model = "null"
    /\ colors = InitialColors
    /\ prediction = "null"
    /\ modelStats = InitialModelStats
    /\ initPc = pc /\ runs = {} /\ nruns = 0
    /\ view = FirstRender
    /\ uiLast = [op |-> "other"]

\* the component not under study
UiIdle == UiMounted("unmounted")

----------------------------------------------------------------------------
(* SpecCodec: hexToRgb applied to one value.                                *)

\* the characters the strings of SpecCodec are built from: the prefix, a
\* lower-case and an upper-case hex letter, a decimal digit, a non-hex letter
Alphabet == {"#", "a", "F", "9", "g"}

\* longest string built from Alphabet ("#" and six digits need 7)
MaxLen == 7

\* the strings the documentation and the UI use
ExampleStrings ==
    { <<"#", "f", "f", "f">>,
      <<"f", "f", "f", "f", "f", "f">>,
      <<"#", "0", "0", "0", "0", "0", "0">>,
      <<"#", "b", "a", "d">>,
      <<"#", "b", "a", "g">>,
      <<"1", "2", "3">>,
      <<"n", "o", "t", "-", "a", "-", "c", "o", "l", "o", "r">> }

\* values that are not strings
NonStrings == {JsNull, JsUndefined, Num(<<"1", "2", "3">>), Num(<<"0">>)}

CodecInputs ==
    {Str(s) : s \in UNION {[1..n -> Alphabet] : n \in 0..MaxLen}}
        \cup {Str(s) : s \in ExampleStrings}
        \cup NonStrings

\* hexToRgb not under study
CodecIdle ==
    /\ codecPc = "done" /\ hex = JsNull /\ rgb = NULL

InitCodec ==
    /\ codecPc = "call"
    /\ hex \in CodecInputs
    /\ rgb = NULL
    /\ PipeIdle
    /\ UiIdle

HexToRgbCall ==
    /\ codecPc = "call"
    /\ rgb' = hexToRgb(hex)
    /\ codecPc' = "done"
    /\ UNCHANGED <<hex, pipeVars, uiVars>>

NextCodec == HexToRgbCall

SpecCodec == InitCodec /\ [][NextCodec]_vars

\* ---- C1 ----------------------------------------------------------------
\* The reference of the claim, written from its words: the sixteen hex digits
\* in order, letters folded to lower case.
RefHexChars ==
    <<"0", "1", "2", "3", "4", "5", "6", "7", "8", "9", "a", "b", "c", "d", "e", "f">>

RefFold(c) ==
    CASE c = "A" -> "a" [] c = "B" -> "b" [] c = "C" -> "c"
      [] c = "D" -> "d" [] c = "E" -> "e" [] c = "F" -> "f"
      [] OTHER -> c

RefIsHex(c) == \E k \in 1..16 : RefHexChars[k] = RefFold(c)

RefValue(c) == (CHOOSE k \in 1..16 : RefHexChars[k] = RefFold(c)) - 1

RefByte(hi, lo) == 16 * RefValue(hi) + RefValue(lo)

RefHexToRgb(x) ==
    IF x.t # "string" \/ x.v = <<>> THEN NULL
    ELSE LET body == IF x.v[1] = "#" THEN SubSeq(x.v, 2, Len(x.v)) ELSE x.v
             six  == IF Len(body) = 3
                     THEN <<body[1], body[1], body[2], body[2], body[3], body[3]>>
                     ELSE body
         IN  IF Len(six) # 6 \/ \E i \in 1..Len(six) : ~RefIsHex(six[i]) THEN NULL
             ELSE << [num |-> RefByte(six[1], six[2]), den |-> 255],
                     [num |-> RefByte(six[3], six[4]), den |-> 255],
                     [num |-> RefByte(six[5], six[6]), den |-> 255] >>

\* letter case of the characters of SpecCodec's strings
ToUpper(c) == CASE c = "a" -> "A" [] c = "b" -> "B" [] c = "d" -> "D"
                [] c = "f" -> "F" [] c = "g" -> "G" [] OTHER -> c
ToLower(c) == CASE c = "A" -> "a" [] c = "B" -> "b" [] c = "D" -> "d"
                [] c = "F" -> "f" [] c = "G" -> "g" [] OTHER -> c
MapUpper(s) == [i \in 1..Len(s) |-> ToUpper(s[i])]
MapLower(s) == [i \in 1..Len(s) |-> ToLower(s[i])]

HasPrefix(s) == Len(s) > 0 /\ s[1] = "#"

\* C1: hexToRgb returns, for every input, the claim's reference value: null for
\* a non-string, an empty string, or a string that, after one leading '#' is
\* removed and a 3-character rest is doubled character by character, is not
\* six hex digits of either case; else the three bytes over 255, each in [0,1].
\* Inputs that differ only in letter case, in having the '#' prefix or not, or
\* in being the 3-digit shorthand of the other give the same vector.
C1_HexToRgbMatchesReference ==
    codecPc = "done" =>
        /\ rgb = RefHexToRgb(hex)
        /\ rgb # NULL =>
             /\ Len(rgb) = 3
             /\ \A i \in 1..3 : rgb[i].den = 255 /\ 0 <= rgb[i].num
                                 /\ rgb[i].num <= rgb[i].den
        /\ hex.t = "string" =>
             /\ hexToRgb(Str(MapUpper(hex.v))) = rgb
             /\ hexToRgb(Str(MapLower(hex.v))) = rgb
             /\ ~HasPrefix(hex.v) => hexToRgb(Str(<<"#">> \o hex.v)) = rgb
             /\ Len(Cleaned(hex.v)) = 3 =>
                  hexToRgb(Str((IF HasPrefix(hex.v) THEN <<"#">> ELSE <<>>)
                               \o DoubleEach(Cleaned(hex.v)))) = rgb

\* C1 witness: the upper/lower-case shorthand "#aF9" was converted to the
\* vector of aaff99
C1_Witness ==
    /\ codecPc = "done"
    /\ hex = Str(<<"#", "a", "F", "9">>)
    /\ rgb = <<Div255(170), Div255(255), Div255(153)>>

----------------------------------------------------------------------------
(* SpecPreprocess: preprocessData applied to one pair of arguments.         *)

\* longest color list passed to preprocessData
MaxList == 3

\* list entries: two colors that parse, one that does not
ListColors ==
    { Str(<<"#", "f", "f", "f">>),
      Str(<<"0", "0", "0", "0", "0", "0">>),
      Str(<<"#", "b", "a", "g">>) }

\* what a caller may pass as a color list: lists, and two values that are not lists
ListArgs ==
    {Arr(l) : l \in UNION {[1..n -> ListColors] : n \in 0..MaxList}}
        \cup {JsNull, Str(<<"#", "f", "f", "f">>)}

InitPreprocess ==
    /\ last \in {[op |-> "args", selected |-> a, unselected |-> b] :
                    a \in ListArgs, b \in ListArgs}
    /\ live = {} /\ pending = {} /\ ncalls = 0 /\ trained = FALSE
    /\ CodecIdle
    /\ UiIdle

\* preprocessData(selectedColors, unselectedColors): it throws, or allocates
\* the tensors xs and ys and returns them with the sample count
PreprocessDataCall ==
    /\ last.op = "args"
    /\ LET pre == preprocessData(last.selected, last.unselected)
       IN  /\ last' = [op |-> "preprocessData", selected |-> last.selected,
                       unselected |-> last.unselected, pre |-> pre]
           /\ live' = IF pre.threw THEN live
                      ELSE live \cup {Tensor(1, "xs"), Tensor(1, "ys")}
    /\ ncalls' = 1
    /\ UNCHANGED <<pending, trained, codecVars, uiVars>>

NextPreprocess == PreprocessDataCall

SpecPreprocess == InitPreprocess /\ [][NextPreprocess]_vars

\* ---- C2, C3 ------------------------------------------------------------
\* the entries of a list that hexToRgb parses, by position
Parseable(list) == {i \in 1..Len(list.v) : hexToRgb(list.v[i]) # NULL}

\* position of the j-th parseable entry of a list
NthParseable(list, j) ==
    CHOOSE i \in Parseable(list) :
        Cardinality({k \in Parseable(list) : k <= i}) = j

ValidationMessages ==
    { <<"Color arrays must be provided">>,
      <<"Both selected and unselected colors must contain data">> }

DataMessage == <<"No valid colors found after processing">>

NotAList(x) == x.t # "array"
EmptyList(x) == x.t = "array" /\ x.v = <<>>

\* C2: preprocessData fails with an input-validation error when an argument
\* is not a list or is an empty list; with a data error when both are
\* non-empty lists and one of them has no entry hexToRgb parses; and
\* succeeds in every other case.
C2_PreprocessOutcome ==
    last.op = "preprocessData" =>
        LET a == last.selected
            b == last.unselected
        IN  IF NotAList(a) \/ NotAList(b) \/ EmptyList(a) \/ EmptyList(b)
            THEN last.pre.threw /\ last.pre.message \in ValidationMessages
            ELSE IF Parseable(a) = {} \/ Parseable(b) = {}
            THEN last.pre.threw /\ last.pre.message = DataMessage
            ELSE ~last.pre.threw

\* C2 witness: a liked list with a parseable color and a disliked list with
\* none was rejected with the data error
C2_Witness ==
    /\ last.op = "preprocessData"
    /\ last.selected.t = "array" /\ last.unselected.t = "array"
    /\ Parseable(last.selected) # {}
    /\ last.unselected.v # <<>> /\ Parseable(last.unselected) = {}
    /\ last.pre.threw /\ last.pre.message = DataMessage

\* C3: when preprocessData succeeds, inputs and labels have the same positive
\* length totalSamples = parseable liked + parseable disliked entries; the
\* inputs are the liked vectors in their order, then the disliked vectors in
\* theirs; the labels are 1 on the liked positions and 0 on the disliked
\* ones; unparseable entries are dropped.
C3_DatasetShape ==
    (last.op = "preprocessData" /\ ~last.pre.threw) =>
        LET a  == last.selected
            b  == last.unselected
            nL == Cardinality(Parseable(a))
            nD == Cardinality(Parseable(b))
            d  == last.pre
        IN  /\ d.totalSamples = nL + nD
            /\ d.totalSamples > 0
            /\ Len(d.xs) = d.totalSamples
            /\ Len(d.ys) = d.totalSamples
            /\ \A j \in 1..nL : d.xs[j] = hexToRgb(a.v[NthParseable(a, j)])
            /\ \A j \in 1..nD : d.xs[nL + j] = hexToRgb(b.v[NthParseable(b, j)])
            /\ \A j \in 1..d.totalSamples : d.ys[j] = IF j <= nL THEN 1 ELSE 0
            /\ {Tensor(1, "xs"), Tensor(1, "ys")} \subseteq live

\* C3 witness: two different liked colors around an unparseable one, and one
\* disliked color, gave three samples in the order liked, liked, disliked
C3_Witness ==
    /\ last.op = "preprocessData" /\ ~last.pre.threw
    /\ last.selected = Arr(<<Str(<<"0", "0", "0", "0", "0", "0">>),
                             Str(<<"#", "b", "a", "g">>),
                             Str(<<"#", "f", "f", "f">>)>>)
    /\ last.unselected = Arr(<<Str(<<"0", "0", "0", "0", "0", "0">>)>>)
    /\ last.pre.xs = << <<Div255(0), Div255(0), Div255(0)>>,
                        <<Div255(255), Div255(255), Div255(255)>>,
                        <<Div255(0), Div255(0), Div255(0)>> >>
    /\ last.pre.ys = <<1, 1, 0>>
    /\ last.pre.totalSamples = 3

----------------------------------------------------------------------------
(* SpecPipeline: a session of trainModel and predictColor calls on one      *)
(* model.  trainModel runs to `await model.fit` in one step and is resumed  *)
(* when the engine settles the fit; predictColor is synchronous.            *)

\* pipeline calls in one session
MaxCalls == 3

\* the engine's scores are the fractions k / ScoreDen, 0 <= k <= ScoreDen
ScoreDen == 4

\* what a caller may pass to trainModel as a color list: values that are not
\* lists, the empty list, lists with and without a color that parses
TrainArgs ==
    { JsNull,
      Arr(<<>>),
      Arr(<<Str(<<"#", "b", "a", "g">>)>>),
      Arr(<<Str(<<"#", "f", "f", "f">>)>>),
      Arr(<<Str(<<"#", "b", "a", "g">>), Str(<<"0", "0", "0", "0", "0", "0">>)>>) }

\* what a caller may pass to predictColor
PredictArgs ==
    { Str(<<"#", "b", "a", "d">>),
      Str(<<"#", "b", "a", "g">>),
      Str(<<"#", "F", "F", "F", "F", "F", "F">>),
      Str(<<>>),
      JsNull }

\* what the engine may answer to one forward pass
EngineAnswers ==
    {[throws |-> TRUE, score |-> Frac(0, ScoreDen)]}
        \cup {[throws |-> FALSE, score |-> Frac(k, ScoreDen)] : k \in 0..ScoreDen}

InitPipeline ==
    /\ PipeIdle
    /\ CodecIdle
    /\ UiIdle

\* trainModel(model, selectedColors, unselectedColors) up to its first await
TrainModelCall ==
    \E selectedColors \in TrainArgs, unselectedColors \in TrainArgs :
        LET call == ncalls + 1
            pre  == preprocessData(selectedColors, unselectedColors)
        IN  /\ ncalls < MaxCalls
            /\ ncalls' = call
            /\ IF pre.threw
               THEN /\ live' = live
                    /\ pending' = pending
                    /\ last' = [op |-> "trainModel", call |-> call,
                                selected |-> selectedColors,
                                unselected |-> unselectedColors,
                                pre |-> pre, allocated |-> {}, fitCalls |-> 0,
                                settled |-> "rejected",
                                message |-> TrainingFailed(pre.message)]
               ELSE /\ live' = live \cup {Tensor(call, "xs"), Tensor(call, "ys")}
                    /\ pending' = pending \cup {call}
                    /\ last' = [op |-> "trainModel", call |-> call,
                                selected |-> selectedColors,
                                unselected |-> unselectedColors,
                                pre |-> pre, allocated |-> {"xs", "ys"}, fitCalls |-> 1,
                                settled |-> "pending", message |-> <<>>]
            /\ UNCHANGED <<trained, codecVars, uiVars>>

\* the engine settles a fit: trainModel returns the history or throws, after
\* its finally block
FitSettle ==
    \E call \in pending, fitOk \in BOOLEAN :
        /\ pending' = pending \ {call}
        /\ live' = TrainFinally(live, call, fitOk)
        /\ trained' = (trained \/ fitOk)
        /\ last' = [op |-> "fitSettle", call |-> call, fitOk |-> fitOk,
                    settled |-> IF fitOk THEN "resolved" ELSE "rejected",
                    message |-> IF fitOk THEN <<>>
                                ELSE TrainingFailed(<<"engine: fit failed">>)]
        /\ UNCHANGED <<ncalls, codecVars, uiVars>>

\* predictColor(model, color)
PredictColorCall ==
    \E color \in PredictArgs, engine \in EngineAnswers :
        LET call == ncalls + 1
            r    == predictColor(color, engine)
        IN  /\ ncalls < MaxCalls
            /\ ncalls' = call
            /\ live' = (live \cup {Tensor(call, role) : role \in r.allocated})
                          \ {Tensor(call, role) : role \in r.disposed}
            /\ last' = [op |-> "predictColor", call |-> call, color |-> color,
                        engine |-> engine, trained |-> trained, r |-> r]
            /\ UNCHANGED <<pending, trained, codecVars, uiVars>>

NextPipeline ==
    \/ TrainModelCall
    \/ FitSettle
    \/ PredictColorCall

SpecPipeline == InitPipeline /\ [][NextPipeline]_vars

\* ---- C4 ----------------------------------------------------------------
\* the tensors a call has put on the heap
TensorsOf(call) == {t \in live : t.call = call}

\* a list argument with no entry that hexToRgb parses
NoParseableEntry(x) == \A i \in 1..Len(x.v) : hexToRgb(x.v[i]) = NULL

\* arguments trainModel must reject: a non-list, an empty list, or a class
\* with no parseable color
RejectedArgs(a, b) ==
    \/ a.t # "array" \/ b.t # "array"
    \/ a.v = <<>> \/ b.v = <<>>
    \/ NoParseableEntry(a) \/ NoParseableEntry(b)

\* C4: invalid input is rejected before any engine call: predictColor on a
\* string hexToRgb does not parse fails with the invalid-input error without
\* allocating a tensor or invoking model.predict; trainModel on a non-list, an
\* empty list or a class with no parseable color fails without allocating a
\* tensor or invoking model.fit.
C4_RejectedBeforeEngine ==
    /\ (last.op = "predictColor" /\ hexToRgb(last.color) = NULL) =>
          /\ last.r.threw
          /\ last.r.message = <<"Invalid color format">>
          /\ last.r.allocated = {}
          /\ last.r.predictCalls = 0
          /\ TensorsOf(last.call) = {}
    /\ (last.op = "trainModel" /\ RejectedArgs(last.selected, last.unselected)) =>
          /\ last.settled = "rejected"
          /\ last.allocated = {}
          /\ last.fitCalls = 0
          /\ TensorsOf(last.call) = {}
          /\ last.call \notin pending

\* C4 witness: the second call of a session, trainModel with a disliked list
\* whose only entry does not parse, was rejected and the heap is empty
C4_Witness ==
    /\ last.op = "trainModel"
    /\ last.selected = Arr(<<Str(<<"#", "f", "f", "f">>)>>)
    /\ last.unselected = Arr(<<Str(<<"#", "b", "a", "g">>)>>)
    /\ last.settled = "rejected"
    /\ last.fitCalls = 0
    /\ live = {}
    /\ ncalls = 2

\* ---- C5 ----------------------------------------------------------------
DatasetRoles == {"xs", "ys"}

\* C5: the tensors of a trainModel call's dataset are released before the
\* call returns or throws, whether fit succeeds or fails: a dataset tensor on
\* the heap belongs to a call still suspended in fit, and a settlement leaves
\* none of its call's tensors behind.
C5_DatasetTensorsReleased ==
    /\ \A t \in live : t.role \in DatasetRoles => t.call \in pending
    /\ last.op = "fitSettle" => TensorsOf(last.call) = {}
    /\ (last.op = "trainModel" /\ last.settled = "rejected") =>
          TensorsOf(last.call) = {}

\* C5 witness: a fit failed, its call threw, and its tensors are gone while
\* another call is still in fit with its tensors live
C5_Witness ==
    /\ last.op = "fitSettle" /\ ~last.fitOk
    /\ last.settled = "rejected"
    /\ TensorsOf(last.call) = {}
    /\ \E c \in pending : {Tensor(c, "xs"), Tensor(c, "ys")} \subseteq live

\* ---- C6 ----------------------------------------------------------------
InferenceRoles == {"input", "output"}

\* C6: every inference buffer of a predictColor call, the input tensor and
\* the output tensor of the forward pass, is released before predictColor
\* returns or throws: no inference buffer is on the heap after any sequence
\* of calls.
C6_InferenceBuffersReleased ==
    \A t \in live : t.role \notin InferenceRoles

\* ---- C7 ----------------------------------------------------------------
PreprocessMessages == ValidationMessages \cup {DataMessage}

\* C7 as claimed: when preprocessing rejects the inputs, trainModel fails
\* with the same error preprocessData raises, not a training-failure error.
C7_SameErrorAsPreprocess ==
    (last.op = "trainModel" /\ last.pre.threw) =>
        /\ last.settled = "rejected"
        /\ last.message = last.pre.message

\* C7 amended: when preprocessing rejects the inputs, trainModel fails with a
\* training-failure error: "Training failed: " followed by the message of the
\* error preprocessData raises for those inputs; the wrapper is applied to
\* preprocessing failures and to failures of the engine's fit alike.
C7_PreprocessErrorIsWrapped ==
    /\ (last.op = "trainModel" /\ RejectedArgs(last.selected, last.unselected)) =>
          /\ last.pre.threw
          /\ last.pre.message \in PreprocessMessages
          /\ last.settled = "rejected"
          /\ last.message = <<"Training failed: ">> \o last.pre.message
    /\ (last.op = "fitSettle" /\ ~last.fitOk) =>
          /\ last.settled = "rejected"
          /\ last.message = <<"Training failed: ", "engine: fit failed">>

\* C7 witness: trainModel(null, ["#fff"]) failed with
\* "Training failed: Color arrays must be provided"
C7_Witness ==
    /\ last.op = "trainModel"
    /\ last.selected = JsNull
    /\ last.settled = "rejected"
    /\ last.message = <<"Training failed: ", "Color arrays must be provided">>

\* ---- C8 ----------------------------------------------------------------
\* |score - 0.5| * 2 for the score k / d, written out by cases
ExpectedConfidence(score) ==
    IF 2 * score.num >= score.den
    THEN [num |-> 2 * score.num - score.den, den |-> score.den]
    ELSE [num |-> score.den - 2 * score.num, den |-> score.den]

\* C8: for a trained or fresh model whose forward pass yields a score in
\* [0,1] and a parseable color, predictColor returns a result with
\* confidence = |score - 0.5| * 2 in [0,1], likely exactly when score > 0.5,
\* label "like" exactly when likely and "dislike" otherwise; score 0.5 gives
\* "dislike" with confidence 0.
C8_PredictionWellFormed ==
    (/\ last.op = "predictColor"
     /\ hexToRgb(last.color) # NULL
     /\ ~last.engine.throws) =>
        LET res   == last.r.result
            score == last.engine.score
        IN  /\ ~last.r.threw
            /\ res.score = score
            /\ 0 <= score.num /\ score.num <= score.den
            /\ FracEq(res.confidence, ExpectedConfidence(score))
            /\ 0 <= res.confidence.num /\ res.confidence.num <= res.confidence.den
            /\ res.likely = (2 * score.num > score.den)
            /\ res.prediction \in {"like", "dislike"}
            /\ (res.prediction = "like") = res.likely
            /\ (2 * score.num = score.den) =>
                   res.prediction = "dislike" /\ res.confidence.num = 0

\* C8 witness: an untrained model scored a color exactly 1/2 and the result
\* is "dislike" with confidence 0
C8_Witness ==
    /\ last.op = "predictColor"
    /\ ~last.trained
    /\ ~last.r.threw
    /\ last.engine.score = Frac(2, 4)
    /\ last.r.result.prediction = "dislike"
    /\ last.r.result.likely = FALSE
    /\ last.r.result.confidence.num = 0

\* ---- C9 ----------------------------------------------------------------
BadColor == Str(<<"#", "b", "a", "d">>)

\* C9 as claimed: predictColor(model, "#bad") fails with an invalid-input
\* error and model.predict is never called for it.
C9_BadIsRejected ==
    (last.op = "predictColor" /\ last.color = BadColor) =>
        /\ last.r.threw
        /\ last.r.message = <<"Invalid color format">>
        /\ last.r.predictCalls = 0

\* C9 amended: "#bad" is the 3-digit shorthand of bbaadd, so
\* predictColor(model, "#bad") raises no invalid-input error and calls
\* model.predict once, on [187/255, 170/255, 221/255]; a string that is not
\* hex, such as "#bag", fails with the invalid-input error and model.predict
\* is not called.
C9_BadIsAColor ==
    /\ (last.op = "predictColor" /\ last.color = BadColor) =>
          /\ last.r.message # <<"Invalid color format">>
          /\ last.r.predictCalls = 1
          /\ last.r.input = <<Div255(187), Div255(170), Div255(221)>>
          /\ last.engine.throws = last.r.threw
    /\ (last.op = "predictColor" /\ last.color = Str(<<"#", "b", "a", "g">>)) =>
          /\ last.r.threw
          /\ last.r.message = <<"Invalid color format">>
          /\ last.r.predictCalls = 0

\* C9 witness: predictColor(model, "#bad") returned a result
C9_Witness ==
    /\ last.op = "predictColor" /\ last.color = BadColor
    /\ ~last.r.threw
    /\ last.r.predictCalls = 1
    /\ last.r.result.prediction = "like"

----------------------------------------------------------------------------
(* SpecUI: the ColorPredictor component.  A click runs its handler up to    *)
(* the first await and React renders before the next event; a promise       *)
(* settlement runs the rest of the async function, and the render of the    *)
(* state it set follows as a step of its own.  The color picker stays at   *)
(* its initial value: no handler branches on the color, and every value of *)
(* <input type="color"> parses.                                            *)

\* handleTrainModel invocations that reach trainModel in one session
MaxRuns == 3

\* longest liked / disliked list the user builds
MaxSamples == 3

InitUI ==
    /\ UiMounted("load")
    /\ PipeIdle
    /\ CodecIdle

\* the render React owes after state was set outside an event handler
RenderStep ==
    /\ view # Render(status, model, colors, modelStats, view)
    /\ view' = Render(status, model, colors, modelStats, view)
    /\ uiLast' = [op |-> "other"]
    /\ UNCHANGED <<status, model, colors, prediction, modelStats, initPc, runs, nruns,
                   codecVars, pipeVars>>

\* InitModelResult gone wrong: the inner catch without its createModel
InitModelMutNoFallback(loaded) == IF loaded THEN "restored" ELSE "null"

\* the model initModel sets: the one loadModel resolved with, or, in the
\* inner catch, the one createModel makes
InitModelResult(loaded) == IF loaded THEN "restored" ELSE "fresh"

\* AfterTrainModel gone wrong: saveModel called in a finally block
AfterTrainMutAlwaysSave(resolved) == "save"

\* where handleTrainModel goes when `await trainModel(...)` settles: on to
\* `await saveModel(...)`, or to its catch and finally blocks
AfterTrainModel(resolved) == IF resolved THEN "save" ELSE "catch"

\* initModel: loadModel settles; on failure createModel makes a new model
LoadSettle ==
    \E loaded \in BOOLEAN :
        /\ initPc = "load"
        /\ initPc' = "done"
        /\ model' = InitModelResult(loaded)
        /\ status' = [status EXCEPT !.isLoading = FALSE]
        /\ uiLast' = [op |-> "loadSettle", loaded |-> loaded]
        /\ UNCHANGED <<colors, prediction, modelStats, runs, nruns, view,
                       codecVars, pipeVars>>

\* Like / Dislike: handleColorSelect(liked)
ColorSelect ==
    \E liked \in BOOLEAN :
        /\ ~view.isLoading
        /\ Len(IF liked THEN colors.selected ELSE colors.unselected) < MaxSamples
        /\ colors' = [colors EXCEPT
                        !.selected = IF liked THEN Append(@, colors.current) ELSE @,
                        !.unselected = IF liked THEN @ ELSE Append(@, colors.current)]
        /\ view' = Render(status, model, colors', modelStats, view)
        /\ uiLast' = [op |-> "other"]
        /\ UNCHANGED <<status, model, prediction, modelStats, initPc, runs, nruns,
                       codecVars, pipeVars>>

\* the Train button as the state renders it: on screen (the component
\* returns the spinner while status.isLoading) and not disabled
TrainEnabled == ~status.isLoading /\ ~TrainDisabled(status, colors)

\* Train Model: the rendered handleTrainModel up to `await trainModel(...)`
TrainClick ==
    LET h == view.handleTrainModel
    IN  /\ ~view.isLoading
        /\ ~view.trainDisabled
        /\ nruns < MaxRuns
        /\ IF h.isTraining \/ h.model = "null" \/ ~h.canTrain
           THEN /\ uiLast' = [op |-> "trainClick", started |-> FALSE,
                              inFlight |-> runs, enabled |-> TrainEnabled]
                /\ UNCHANGED <<status, runs, nruns, view>>
           ELSE /\ status' = [status EXCEPT !.isTraining = TRUE, !.error = "null"]
                /\ runs' = runs \cup
                      {[id |-> nruns + 1, pc |-> "train",
                        pre |-> preprocessData(Arr(h.selected), Arr(h.unselected)),
                        totalSamples |-> h.totalSamples]}
                /\ nruns' = nruns + 1
                /\ view' = Render(status', model, colors, modelStats, view)
                /\ uiLast' = [op |-> "trainClick", started |-> TRUE,
                              inFlight |-> runs, enabled |-> TrainEnabled]
        /\ UNCHANGED <<model, colors, prediction, modelStats, initPc,
                       codecVars, pipeVars>>

\* trainModel settles.  Resolved: saveModel is called.  Rejected: the catch
\* and finally blocks of handleTrainModel run.
TrainSettle ==
    \E run \in runs, fitOk \in BOOLEAN :
        /\ run.pc = "train"
        /\ LET resolved == fitOk /\ ~run.pre.threw
           IN  /\ trained' = (trained \/ resolved)
               /\ IF AfterTrainModel(resolved) = "save"
                  THEN /\ runs' = (runs \ {run}) \cup {[run EXCEPT !.pc = "save"]}
                       /\ status' = status
                  ELSE /\ runs' = runs \ {run}
                       /\ status' = [status EXCEPT !.error = "training",
                                                   !.isTraining = FALSE]
               /\ uiLast' = [op |-> "trainSettle", run |-> run.id,
                             resolved |-> resolved]
        /\ UNCHANGED <<model, colors, prediction, modelStats, initPc, nruns, view,
                       codecVars, live, pending, ncalls, last>>

\* saveModel settles.  Resolved: setModelStats, setPrediction(null).
\* Rejected: the catch block.  Then the finally block.
SaveSettle ==
    \E run \in runs, saved \in BOOLEAN :
        /\ run.pc = "save"
        /\ runs' = runs \ {run}
        /\ IF saved
           THEN /\ modelStats' = [trainedSamples |-> run.totalSamples,
                                  lastTrained |-> TRUE]
                /\ prediction' = "null"
                /\ status' = [status EXCEPT !.isTraining = FALSE]
           ELSE /\ modelStats' = modelStats
                /\ prediction' = prediction
                /\ status' = [status EXCEPT !.error = "training", !.isTraining = FALSE]
        /\ uiLast' = [op |-> "other"]
        /\ UNCHANGED <<model, colors, initPc, nruns, view, codecVars, pipeVars>>

\* Predict: the rendered handlePredict, with predictColor and what follows
\* its await
PredictClick ==
    \E engine \in EngineAnswers :
        LET h == view.handlePredict
            r == predictColor(h.current, engine)
        IN  /\ ~view.isLoading
            /\ ~view.predictDisabled
            /\ IF h.model = "null"
               THEN /\ uiLast' = [op |-> "predictClick", invoked |-> FALSE,
                                  inFlight |-> runs]
                    /\ UNCHANGED <<status, prediction>>
               ELSE /\ uiLast' = [op |-> "predictClick", invoked |-> TRUE,
                                  inFlight |-> runs, threw |-> r.threw]
                    /\ prediction' = IF r.threw THEN prediction
                                     ELSE r.result.prediction
                    /\ status' = IF r.threw
                                 THEN [status EXCEPT !.error = "prediction"]
                                 ELSE status
            /\ UNCHANGED <<model, colors, modelStats, initPc, runs, nruns, view,
                           codecVars, pipeVars>>

NextUI ==
    \/ RenderStep
    \/ LoadSettle
    \/ ColorSelect
    \/ TrainClick
    \/ TrainSettle
    \/ SaveSettle
    \/ PredictClick

SpecUI == InitUI /\ [][NextUI]_vars

\* ---- C10 ---------------------------------------------------------------
\* C10: at most one training run is in flight: trainModel is never invoked
\* by handleTrainModel while an earlier invocation's trainModel, or the
\* saveModel after it, has not settled.
C10_OneTrainingRunInFlight ==
    /\ Cardinality(runs) <= 1
    /\ (uiLast.op = "trainClick" /\ uiLast.started) => uiLast.inFlight = {}
    /\ runs # {} => status.isTraining

\* C10 witness: a second run was started after samples were added during the
\* first one, and it is the only one in flight
C10_Witness ==
    /\ uiLast.op = "trainClick" /\ uiLast.started
    /\ nruns = 2
    /\ Cardinality(runs) = 1
    /\ Len(colors.selected) = 3

\* ---- C11 ---------------------------------------------------------------
\* the lifecycle state of the session's model
Lifecycle ==
    IF model = "null" THEN "UNINITIALIZED"
    ELSE IF trained THEN "TRAINED"
    ELSE IF model = "restored" THEN "RESTORED"
    ELSE "FRESH"

\* the runs whose saveModel call has been made and has not settled
SaveCalls == {r.id : r \in {x \in runs : x.pc = "save"}}

\* C11: the model's lifecycle changes only from UNINITIALIZED to RESTORED
\* (loadModel succeeded) or FRESH (loadModel failed, createModel), and from
\* RESTORED, FRESH or TRAINED to TRAINED by a trainModel run that resolved;
\* when a run's trainModel resolves, saveModel is invoked for that run in
\* the same step, before any other run starts or any state is set; when it
\* rejects, the lifecycle state stays and saveModel is not invoked; no
\* other step invokes saveModel.
C11_ModelLifecycle ==
    [][ /\ Lifecycle' # Lifecycle =>
             \/ Lifecycle = "UNINITIALIZED" /\ uiLast'.op = "loadSettle"
             \/ /\ Lifecycle \in {"RESTORED", "FRESH"}
                /\ Lifecycle' = "TRAINED"
                /\ uiLast'.op = "trainSettle" /\ uiLast'.resolved
        /\ uiLast'.op = "loadSettle" =>
             /\ Lifecycle = "UNINITIALIZED"
             /\ Lifecycle' = IF uiLast'.loaded THEN "RESTORED" ELSE "FRESH"
        /\ uiLast'.op = "trainSettle" =>
             /\ Lifecycle \in {"RESTORED", "FRESH", "TRAINED"}
             /\ uiLast'.resolved =>
                  /\ Lifecycle' = "TRAINED"
                  /\ uiLast'.run \notin SaveCalls
                  /\ SaveCalls' = SaveCalls \cup {uiLast'.run}
                  /\ nruns' = nruns
                  /\ UNCHANGED <<status, model, modelStats, prediction, colors>>
             /\ ~uiLast'.resolved =>
                  /\ Lifecycle' = Lifecycle
                  /\ SaveCalls' = SaveCalls
                  /\ uiLast'.run \notin {r.id : r \in runs'}
        /\ uiLast'.op # "trainSettle" => SaveCalls' \subseteq SaveCalls
      ]_vars

\* C11 witness: on a created model already trained and saved once, the
\* second run's trainModel resolved and its saveModel call is in flight
C11_Witness ==
    /\ uiLast.op = "trainSettle" /\ uiLast.resolved /\ uiLast.run = 2
    /\ model = "fresh" /\ modelStats.lastTrained
    /\ Lifecycle = "TRAINED"
    /\ SaveCalls = {2}

\* ---- C12 ---------------------------------------------------------------
\* C12: the session remains usable after any operation settles: with no
\* training run in flight status.isTraining is false, and a click on the
\* enabled Train button (model set, at least 2 liked and 2 disliked samples,
\* isTraining false) starts a training run, also when samples were added
\* while the previous run was in flight.
C12_SessionRemainsUsable ==
    /\ runs = {} => ~status.isTraining
    /\ (uiLast.op = "trainClick" /\ uiLast.enabled /\ model # "null") =>
          uiLast.started

\* ---- C13 ---------------------------------------------------------------
\* C13 as claimed: predictColor is invoked by handlePredict only when no
\* training run started by handleTrainModel is unsettled.
C13_NoPredictionDuringTraining ==
    (uiLast.op = "predictClick" /\ uiLast.invoked) => uiLast.inFlight = {}

\* C13 amended: a click on Predict invokes predictColor, and it can be
\* clicked only once a training run of the session has resolved and its
\* saveModel has resolved (modelStats.lastTrained is set); a training run in
\* flight at that moment is a later run than that one, never the first.
C13_PredictionOnlyAfterTrainedAndSaved ==
    uiLast.op = "predictClick" =>
        /\ uiLast.invoked
        /\ model # "null"
        /\ modelStats.lastTrained
        /\ trained
        /\ \A r \in uiLast.inFlight : r.id >= 2
        /\ uiLast.inFlight = runs

\* C13 witness: Predict was clicked while the second run's trainModel was
\* unsettled, and predictColor returned a result
C13_Witness ==
    /\ uiLast.op = "predictClick" /\ uiLast.invoked /\ ~uiLast.threw
    /\ \E r \in uiLast.inFlight : r.id = 2 /\ r.pc = "train"
    /\ status.isTraining
    /\ prediction = "like"

====
